---- MODULE Spec2Model ----
(***************************************************************************)
(* Career Pathfinder (src/app/page.tsx): the preference profile, the       *)
(* scoring function, the ranker, the feedback learner, the source          *)
(* aggregation and the React component that wires them to localStorage.    *)
(*                                                                         *)
(* Conventions                                                             *)
(*  - A JavaScript string on which the code does substring search, case    *)
(*    folding or concatenation is a sequence of one-character strings.     *)
(*    Labels that are only compared for equality are TLA+ strings.         *)
(*  - An optional value is None (<<>>) or Some(v) (<<v>>).                  *)
(*  - A weight is an integer number of hundredths (1.4 is 140); a score is *)
(*    an integer number of 1/2100 (hundredths times the 21 of the recency  *)
(*    ramp), so that sums and the ramp are exact.                          *)
(*  - Time is counted in ticks, TicksPerDay ticks to the day.              *)
(*  - A JavaScript object is a function from its own property names to     *)
(*    values (a record); spread is the right-biased union of two of them.  *)
(***************************************************************************)
EXTENDS Integers, Sequences, FiniteSets, TLC

VARIABLES
  prefs,         \* useState prefs (line 485)
  jobs,          \* useState jobs (line 486)
  ranked,        \* useState ranked (line 487)
  loading,       \* useState loading (line 488)
  saved,         \* useState saved (line 489)
  weeklyDigest,  \* useState weeklyDigest (line 498)
  storage,       \* localStorage: key -> None | Some(stored text)
  lastFeedback,  \* window.__lastFeedback (lines 126, 540, 544)
  effects,       \* the passive effects scheduled by the last commit, not yet run
  now,           \* Date.now(), in ticks
  enabled,       \* jobAdapters[i].enabled (lines 335, 689)
  fetchPc,       \* where the fetchJobs call of runSearch stands
  called,        \* the adapters the running fetchJobs call invoked (line 345)
  promises,      \* the promise of each invoked adapter (line 346)
  fetchRaised,   \* whether the last fetchJobs call rejected instead of resolving
  heap,          \* object store of the by-reference view of the profile
  prefsRef,      \* the address held by the prefs state in that view
  rankTrace,     \* the sorted {job, score} array of the last reRank call (line 213)
  submissions,   \* history: the feedback submissions the user has made
  last,          \* history: the last operation and its inputs
  nCalls,        \* history: number of learnFromFeedback calls
  nEdits         \* history: number of user operations

vars == <<prefs, jobs, ranked, loading, saved, weeklyDigest, storage, lastFeedback,
          effects, now, enabled, fetchPc, called, promises, fetchRaised, heap,
          prefsRef, rankTrace, submissions, last, nCalls, nEdits>>

-----------------------------------------------------------------------------
(* Bounds of the model *)

MaxCalls == 17
MaxOps == 2
MaxJobs == 3
MaxNow == 1
NumAdapters == 2
TicksPerDay == 2

-----------------------------------------------------------------------------
(* Values *)

None == <<>>
Some(v) == <<v>>
IsSome(o) == Len(o) > 0
Get(o) == o[1]

Min(a, b) == IF a < b THEN a ELSE b
Max(a, b) == IF a > b THEN a ELSE b

UpperToLower ==
  ("A" :> "a") @@ ("B" :> "b") @@ ("C" :> "c") @@ ("D" :> "d") @@ ("E" :> "e") @@
  ("F" :> "f") @@ ("G" :> "g") @@ ("H" :> "h") @@ ("I" :> "i") @@ ("J" :> "j") @@
  ("K" :> "k") @@ ("L" :> "l") @@ ("M" :> "m") @@ ("N" :> "n") @@ ("O" :> "o") @@
  ("P" :> "p") @@ ("Q" :> "q") @@ ("R" :> "r") @@ ("S" :> "s") @@ ("T" :> "t") @@
  ("U" :> "u") @@ ("V" :> "v") @@ ("W" :> "w") @@ ("X" :> "x") @@ ("Y" :> "y") @@
  ("Z" :> "z")

toLowerCase_identity(s) == s

\* String.prototype.toLowerCase
toLowerCase(s) ==
  [i \in 1..Len(s) |-> IF s[i] \in DOMAIN UpperToLower THEN UpperToLower[s[i]] ELSE s[i]]

\* String.prototype.includes: sub occurs in s as a contiguous substring
includes(s, sub) ==
  \E i \in 0..(Len(s) - Len(sub)) : \A j \in 1..Len(sub) : s[i + j] = sub[j]

\* Array.prototype.includes
arrIncludes(arr, x) == \E i \in 1..Len(arr) : arr[i] = x

\* Array.prototype.slice(0, n)
slice0(arr, n) == SubSeq(arr, 1, Min(n, Len(arr)))

\* { ...a, ...b }
spread(a, b) ==
  [k \in DOMAIN a \cup DOMAIN b |-> IF k \in DOMAIN b THEN b[k] ELSE a[k]]

-----------------------------------------------------------------------------
(* Utilities (lines 62-123) *)

STORAGE_KEY == "pathfinder-state-v1"
SAVED_KEY == "career-pathfinder-state-v1"

defaultPreferences ==
  [ keywords |-> << <<"o","r","g","a","n","i","s","a","t","i","o","n","a","l"," ","p","s","y","c","h","o","l","o","g","y">>, <<"b","e","h","a","v","i","o","u","r","a","l"," ","s","c","i","e","n","c","e">>, <<"O","D">>,
                    <<"l","e","a","d","e","r","s","h","i","p"," ","d","e","v","e","l","o","p","m","e","n","t">>, <<"c","u","l","t","u","r","e">>, <<"s","t","a","t","i","s","t","i","c","s">>,
                    <<"p","r","o","g","r","a","m"," ","e","v","a","l","u","a","t","i","o","n">>, <<"r","e","s","e","a","r","c","h"," ","m","e","t","h","o","d","s">>, <<"d","a","t","a"," ","a","n","a","l","y","s","i","s">> >>,
    blockedKeywords |-> << <<"c","o","r","r","u","p","t","i","o","n"," ","p","r","e","v","e","n","t","i","o","n">> >>,
    preferredLocations |-> << <<"S","y","d","n","e","y">>, <<"N","S","W">>, <<"H","y","b","r","i","d">>, <<"R","e","m","o","t","e">> >>,
    excludedLocations |-> << >>,
    minSalary |-> Some(140000),
    workTypes |-> << "Full-time", "Fixed-term", "Contract" >>,
    industries |-> << <<"C","o","n","s","u","l","t","i","n","g">>, <<"T","e","c","h">>, <<"H","e","a","l","t","h","c","a","r","e">>, <<"H","i","g","h","e","r"," ","E","d","u","c","a","t","i","o","n">>,
                      <<"F","i","n","a","n","c","i","a","l"," ","S","e","r","v","i","c","e","s">>, <<"P","u","b","l","i","c"," ","S","e","c","t","o","r">> >>,
    seniority |-> << "Senior", "Lead", "Manager", "Director" >>,
    remoteOnly |-> FALSE,
    academia |-> TRUE,
    consulting |-> TRUE,
    publicSector |-> TRUE,
    privateSector |-> TRUE,
    weights |-> [ keywordMatch |-> 140, negativeKeyword |-> -220, locationMatch |-> 90,
                  salary |-> 120, workType |-> 60, industry |-> 70, seniority |-> 80,
                  remote |-> 50, recency |-> 60 ] ]

daysSince_roundedUp(dateIso, clock) ==
  IF ~IsSome(dateIso) THEN 999
  ELSE 0 - ((Get(dateIso) - clock) \div TicksPerDay)

\* Whole days between the posting date and now; 999 without a date (lines 114-119)
daysSince(dateIso, clock) ==
  IF ~IsSome(dateIso) THEN 999
  ELSE (clock - Get(dateIso)) \div TicksPerDay

clamp_nomin(n, min, max) == Min(max, n)

\* Math.max(min, Math.min(max, n)) (lines 121-123)
clamp(n, min, max) == Max(min, Min(max, n))

-----------------------------------------------------------------------------
(* Tag extractor (lines 129-160) *)

picks ==
  << <<"o","r","g","a","n","i","s","a","t","i","o","n","a","l"," ","p","s","y","c","h","o","l","o","g","y">>, <<"b","e","h","a","v","i","o","u","r","a","l">>, <<"l","e","a","d","e","r","s","h","i","p">>, <<"c","u","l","t","u","r","e">>, <<"o","d">>,
     <<"l","e","a","r","n","i","n","g">>, <<"l","&","d">>, <<"p","e","o","p","l","e"," ","a","n","a","l","y","t","i","c","s">>, <<"d","a","t","a">>, <<"s","t","a","t","i","s","t","i","c","s">>, <<"e","v","a","l","u","a","t","i","o","n">>,
     <<"p","r","o","g","r","a","m">>, <<"p","o","l","i","c","y">>, <<"c","o","n","s","u","l","t","i","n","g">>, <<"e","x","p","e","r","i","m","e","n","t","a","l">>, <<"r","e","s","e","a","r","c","h">>, <<"p","h","d">>,
     <<"d","o","c","t","o","r","a","t","e">>, <<"u","n","i","v","e","r","s","i","t","y">>, <<"h","e","a","l","t","h">>, <<"c","l","i","n","i","c","a","l">>, <<"g","o","v","e","r","n","m","e","n","t">>, <<"e","t","h","i","c","s">>,
     <<"r","i","s","k">>, <<"p","s","y","c","h","o","m","e","t","r","i","c","s">>, <<"s","u","r","v","e","y">> >>

extractTags_titleOnly(job) ==
  LET blob == toLowerCase(job.title)
      Occurs(p) == includes(blob, p)
  IN  slice0(SelectSeq(picks, Occurs), 12)

\* extractTags (lines 129-160)
extractTags(job) ==
  LET blob == toLowerCase(job.title \o <<" ">> \o
                          (IF IsSome(job.description) THEN Get(job.description) ELSE <<>>))
      Occurs(p) == includes(blob, p)
  IN  slice0(SelectSeq(picks, Occurs), 12)

-----------------------------------------------------------------------------
(* Scoring function (lines 166-207) *)

\* a || b || 0 on optional numbers: the first that is present and not 0
firstTruthy(a, b) ==
  IF IsSome(a) /\ Get(a) # 0 THEN Get(a)
  ELSE IF IsSome(b) /\ Get(b) # 0 THEN Get(b)
  ELSE 0

truthyFlag_present(o) == IsSome(o)

\* a flag that is present and true (line 200)
truthyFlag(o) == IsSome(o) /\ Get(o)

\* Recency boost (lines 203-204), in units of 1/2100
recencyScore(job, w, clock) ==
  LET d == daysSince(job.postedAt, clock)
  IN  IF d < 21 THEN w.recency * (21 - d) ELSE 0

\* The score in units of 1/2100; clock is the reading of Date.now() in daysSince
scoreJob(job, p, clock) ==
  LET w == p.weights
      title == toLowerCase(job.title)
      desc == toLowerCase(IF IsSome(job.description) THEN Get(job.description) ELSE <<>>)
      Mentions(kw) == includes(title, toLowerCase(kw)) \/ includes(desc, toLowerCase(kw))
      hits(arr) == Cardinality({ i \in 1..Len(arr) : Mentions(arr[i]) })
      kwScore == hits(p.keywords) * w.keywordMatch
      negScore == hits(p.blockedKeywords) * w.negativeKeyword
      locationScore ==
        IF \E i \in 1..Len(p.preferredLocations) :
             includes(toLowerCase(job.location), toLowerCase(p.preferredLocations[i]))
        THEN w.locationMatch ELSE 0
      offered == firstTruthy(job.salaryMax, job.salaryMin)
      salaryScore == IF offered >= firstTruthy(p.minSalary, None) THEN w.salary ELSE 0
      workTypeScore ==
        IF IsSome(job.workType) /\ Get(job.workType) # ""
           /\ arrIncludes(p.workTypes, Get(job.workType))
        THEN w.workType ELSE 0
      tags == IF IsSome(job.tags) THEN Get(job.tags) ELSE << >>
      industryScore ==
        IF \E t \in 1..Len(tags) : \E i \in 1..Len(p.industries) :
             includes(toLowerCase(tags[t]), toLowerCase(p.industries[i]))
        THEN w.industry ELSE 0
      seniorityScore ==
        IF IsSome(job.seniority) /\ Get(job.seniority) # ""
           /\ arrIncludes(p.seniority, Get(job.seniority))
        THEN w.seniority ELSE 0
      remoteScore == IF truthyFlag(job.remote) \/ truthyFlag(job.hybrid) THEN w.remote ELSE 0
  IN  21 * (kwScore + negScore + locationScore + salaryScore + workTypeScore
            + industryScore + seniorityScore + remoteScore) + recencyScore(job, w, clock)

-----------------------------------------------------------------------------
(* Ranker (lines 209-215) *)

\* { ...j, tags: j.tags?.length ? j.tags : extractTags(j) } (line 210)
enrich(j) ==
  [j EXCEPT !.tags = IF IsSome(j.tags) /\ Len(Get(j.tags)) > 0 THEN j.tags
                     ELSE Some(extractTags(j))]

compareScore_ascending(a, b) == a.score - b.score

\* (a, b) => b.score - a.score (line 213)
compareScore(a, b) == b.score - a.score

insertSorted_beforeTies(sorted, x) ==
  LET lead == { i \in 1..Len(sorted) : compareScore(x, sorted[i]) <= 0 }
      at == IF lead = {} THEN Len(sorted) + 1
            ELSE CHOOSE i \in lead : \A k \in lead : i <= k
  IN  SubSeq(sorted, 1, at - 1) \o << x >> \o SubSeq(sorted, at, Len(sorted))

\* One step of Array.prototype.sort, which is stable: x goes before the first
\* element it must precede (comparator < 0) and so after every element it ties with
insertSorted(sorted, x) ==
  LET lead == { i \in 1..Len(sorted) : compareScore(x, sorted[i]) < 0 }
      at == IF lead = {} THEN Len(sorted) + 1
            ELSE CHOOSE i \in lead : \A k \in lead : i <= k
  IN  SubSeq(sorted, 1, at - 1) \o << x >> \o SubSeq(sorted, at, Len(sorted))

\* Array.prototype.sort with the comparator of line 213
RECURSIVE sortByScore(_)
sortByScore(arr) ==
  IF arr = << >> THEN << >>
  ELSE insertSorted(sortByScore(SubSeq(arr, 1, Len(arr) - 1)), arr[Len(arr)])

\* Lines 210-213: the enriched postings with their scores, sorted.  clock[i] is the
\* reading of Date.now() in the scoreJob call for the i-th posting; idx records the
\* posting's position in the input.
rankDecorated(js, p, clock) ==
  sortByScore([i \in 1..Len(js) |->
                 [job |-> enrich(js[i]), score |-> scoreJob(enrich(js[i]), p, clock[i]),
                  idx |-> i, at |-> clock[i]]])

\* reRank (lines 209-215)
reRank(js, p, clock) ==
  LET d == rankDecorated(js, p, clock) IN [i \in 1..Len(d) |-> d[i].job]

-----------------------------------------------------------------------------
(* The profile by reference.  The heap is a sequence of cells, a cell's address *)
(* its index: a profile object holds the addresses of its weights object and of *)
(* its keywords and blockedKeywords arrays (an array cell is [items |-> ...]).  *)

\* h extended by the cells of profile value p; the profile object is the last cell
allocPrefs(h, p) ==
  h \o << p.weights, [items |-> p.keywords], [items |-> p.blockedKeywords],
          [p EXCEPT !.weights = Len(h) + 1, !.keywords = Len(h) + 2,
                    !.blockedKeywords = Len(h) + 3] >>

\* The profile value held at address a
deref(h, a) ==
  [h[a] EXCEPT !.weights = h[h[a].weights], !.keywords = h[h[a].keywords].items,
               !.blockedKeywords = h[h[a].blockedKeywords].items]

-----------------------------------------------------------------------------
(* Feedback learner (lines 218-245) *)

copyPrefs_shared(h, p) == h \o << h[h[p].weights], h[p] >>

\* const newPrefs = { ...prefs, weights: { ...prefs.weights } } (line 220): a new
\* weights object and a new profile object, the last cell; the arrays are shared
copyPrefs(h, p) == h \o << h[h[p].weights], [h[p] EXCEPT !.weights = Len(h) + 1] >>

RECURSIVE learnTags_allowList(_, _, _, _)
learnTags_allowList(h, n, tags, liked) ==
  IF tags = << >> THEN h
  ELSE LET tLower == toLowerCase(Head(tags))
           arr == h[h[n].keywords].items
           h1 == IF arrIncludes(arr, tLower) THEN h
                 ELSE [(h \o << [items |-> Append(arr, tLower)] >>)
                         EXCEPT ![n].keywords = Len(h) + 1]
       IN  learnTags_allowList(h1, n, Tail(tags), liked)

\* The forEach of lines 227-234 on the profile object at n
RECURSIVE learnTags(_, _, _, _)
learnTags(h, n, tags, liked) ==
  IF tags = << >> THEN h
  ELSE LET tLower == toLowerCase(Head(tags))
           list == IF liked THEN "keywords" ELSE "blockedKeywords"
           arr == h[h[n][list]].items
           h1 == IF arrIncludes(arr, tLower) THEN h
                 ELSE [(h \o << [items |-> Append(arr, tLower)] >>)
                         EXCEPT ![n][list] = Len(h) + 1]
       IN  learnTags(h1, n, Tail(tags), liked)

\* learnFromFeedback on the heap: the heap after the call and the address returned
learnFromFeedbackAt(h, p, job, liked, notes, selectedTags) ==
  LET delta == IF liked THEN 15 ELSE -12
      h0 == copyPrefs(h, p)
      n == Len(h0)
      W(hh) == hh[hh[n].weights]
      setW(hh, key, val) == [hh EXCEPT ![hh[n].weights][key] = val]
      h1 == IF liked
            THEN setW(h0, "keywordMatch", clamp(W(h0).keywordMatch + 5, 60, 220))
            ELSE h0
      h2 == IF ~liked
            THEN setW(h1, "negativeKeyword", clamp(W(h1).negativeKeyword - 5, -300, -60))
            ELSE h1
      tags == IF Len(selectedTags) > 0 THEN selectedTags
              ELSE IF IsSome(job.tags) THEN Get(job.tags) ELSE << >>
      h3 == learnTags(h2, n, tags, liked)
      nn == toLowerCase(notes)
      h4 == IF includes(nn, <<"s","a","l","a","r","y">>) \/ includes(nn, <<"p","a","y">>)
            THEN setW(h3, "salary", clamp(W(h3).salary + delta, 20, 240)) ELSE h3
      h5 == IF includes(nn, <<"r","e","m","o","t","e">>) \/ includes(nn, <<"h","y","b","r","i","d">>)
            THEN setW(h4, "remote", clamp(W(h4).remote + delta, 0, 140)) ELSE h4
      h6 == IF includes(nn, <<"l","e","a","d","e","r","s","h","i","p">>) \/ includes(nn, <<"m","a","n","a","g","e","r">>)
               \/ includes(nn, <<"d","i","r","e","c","t","o","r">>)
            THEN setW(h5, "seniority", clamp(W(h5).seniority + delta, 20, 200)) ELSE h5
      h7 == IF includes(nn, <<"c","o","n","s","u","l","t">>) THEN [h6 EXCEPT ![n].consulting = liked] ELSE h6
      h8 == IF includes(nn, <<"u","n","i","v","e","r","s","i","t","y">>) \/ includes(nn, <<"a","c","a","d","e","m","i","c">>)
            THEN [h7 EXCEPT ![n].academia = liked] ELSE h7
  IN  [heap |-> h8, ref |-> n]

\* learnFromFeedback on values: the profile it returns for the profile value p
learnFromFeedback(p, job, liked, notes, selectedTags) ==
  LET h == allocPrefs(<< >>, p)
      r == learnFromFeedbackAt(h, Len(h), job, liked, notes, selectedTags)
  IN  deref(r.heap, r.ref)

-----------------------------------------------------------------------------
(* Persistence (lines 101-112).  A stored text is the value JSON.parse gives   *)
(* back for it, tagged with its JSON type; JSON.stringify drops the properties *)
(* whose value is undefined (of a profile: an absent minSalary).               *)

IndexKey == << "0", "1", "2", "3", "4", "5", "6", "7" >>

Obj(v) == [t |-> "object", v |-> v]
Arr(v) == [t |-> "array", v |-> v]

\* JSON.parse(JSON.stringify(value))
jsonRoundTrip(value) ==
  IF value.t = "object"
  THEN Obj([k \in { x \in DOMAIN value.v : ~(x = "minSalary" /\ ~IsSome(value.v[x])) }
              |-> value.v[k]])
  ELSE value

\* The own enumerable properties a spread copies from a parsed value
ownProps(value) ==
  IF value.t = "object" THEN value.v
  ELSE [k \in { IndexKey[i] : i \in 1..Len(value.v) }
          |-> value.v[CHOOSE i \in 1..Len(value.v) : IndexKey[i] = k]]

\* saveState(state): the storage after localStorage.setItem (lines 101-103)
saveState(st, state) == [st EXCEPT ![STORAGE_KEY] = Some(jsonRoundTrip(state))]

\* loadState(fallback) (lines 105-112): the fallback itself when nothing is stored
\* or the text does not parse, else the object { ...fallback, ...parsed }
loadState(st, fallback) ==
  LET raw == st[STORAGE_KEY] IN
  IF ~IsSome(raw) THEN fallback
  ELSE IF Get(raw).t = "corrupt" THEN fallback
  ELSE Obj(spread(ownProps(fallback), ownProps(Get(raw))))

\* The Preferences fields of a loaded profile object
PreferenceFields == DOMAIN defaultPreferences
profileOf(obj) == [k \in PreferenceFields |-> obj[k]]

-----------------------------------------------------------------------------
(* Source aggregation (lines 335-356) *)

Adapters == 1..NumAdapters

\* `${j.source}-${j.id}` (line 354)
dedupKey(j) == j.source \o <<"-">> \o j.id

\* Map.prototype.set: an existing key keeps its place and takes the new value
mapSet(m, key, value) ==
  IF \E i \in 1..Len(m) : m[i].key = key
  THEN [i \in 1..Len(m) |-> IF m[i].key = key THEN [key |-> key, value |-> value] ELSE m[i]]
  ELSE Append(m, [key |-> key, value |-> value])

\* for (const j of jobs) map.set(key, j) (line 354)
RECURSIVE mapSetAll(_, _)
mapSetAll(m, js) ==
  IF js = << >> THEN m ELSE mapSetAll(mapSet(m, dedupKey(Head(js)), Head(js)), Tail(js))

\* Array.from(map.values()) of the map filled from js (lines 353-355)
dedup(js) == LET m == mapSetAll(<< >>, js) IN [i \in 1..Len(m) |-> m[i].value]

\* A promise is [status, value, at]: at is its place in the order of settlement,
\* 0 while it has not settled
settledCount(ps) ==
  Cardinality({ i \in DOMAIN ps : ps[i].status \in { "fulfilled", "rejected" } })

RECURSIVE concatFulfilled_settleOrder(_, _)
concatFulfilled_settleOrder(order, ps) ==
  IF order = << >> THEN << >>
  ELSE LET first == CHOOSE i \in 1..Len(order) :
                      \A k \in 1..Len(order) : ps[order[i]].at <= ps[order[k]].at
           rest == [k \in 1..(Len(order) - 1) |-> IF k < first THEN order[k] ELSE order[k + 1]]
       IN  (IF ps[order[first]].status = "fulfilled" THEN ps[order[first]].value ELSE << >>)
           \o concatFulfilled_settleOrder(rest, ps)

\* The forEach of lines 348-351: the values of the fulfilled promises, in the order
\* of the adapters invoked
RECURSIVE concatFulfilled(_, _)
concatFulfilled(order, ps) ==
  IF order = << >> THEN << >>
  ELSE (IF ps[Head(order)].status = "fulfilled" THEN ps[Head(order)].value ELSE << >>)
       \o concatFulfilled(Tail(order), ps)

settled_failFast(order, ps) ==
  [ ready |-> (\E i \in 1..Len(order) : ps[order[i]].status = "rejected")
              \/ (\A i \in 1..Len(order) : ps[order[i]].status = "fulfilled"),
    raised |-> \E i \in 1..Len(order) : ps[order[i]].status = "rejected" ]

\* Promise.allSettled (line 346): resolves once no promise is pending, never rejects
settled(order, ps) ==
  [ ready |-> \A i \in 1..Len(order) : ps[order[i]].status # "pending",
    raised |-> FALSE ]

\* jobAdapters.filter(a => a.enabled) (line 345), as the adapters' indices in order
enabledAdapters(en) == SelectSeq([i \in 1..NumAdapters |-> i], LAMBDA i : en[i])

-----------------------------------------------------------------------------
(* Inputs *)

Job(id, source, title, description, location, postedAt, tags, salaryMin, salaryMax, workType, seniority, remote, hybrid) ==
  [ id |-> id, title |-> title, company |-> "Acme", location |-> location,
    url |-> "https://example.com/jobs", postedAt |-> postedAt,
    description |-> description, source |-> source, tags |-> tags,
    salaryMin |-> salaryMin, salaryMax |-> salaryMax, workType |-> workType,
    seniority |-> seniority, remote |-> remote, hybrid |-> hybrid ]

\* no tags, 20 whole days old at tick 0 and 21 at tick 1
JobA == Job(<<"1">>, <<"A">>, <<"L","e","a","d"," ","O","D">>, Some(<<"c","u","l","t","u","r","e"," ","d","a","t","a">>), <<"S","y","d","n","e","y">>,
            Some(0 - 20 * TicksPerDay - (TicksPerDay - 1)), None, None, Some(150000), Some("Full-time"), Some("Lead"), None, Some(TRUE))
\* the (source, id) of JobA, other content
JobA2 == Job(<<"1">>, <<"A">>, <<"R","i","s","k"," ","a","n","a","l","y","s","t">>, None, <<"P","e","r","t","h">>, None,
             Some(<< <<"T","e","c","h">>, <<"O","D">> >>), Some(90000), None, Some("Casual"), None, None, None)
\* JobB and JobC differ in (source, id) alone, and `${source}-${id}` is A-b-1 for both
JobB == Job(<<"b","-","1">>, <<"A">>, <<"P","o","l","i","c","y"," ","o","f","f","i","c","e","r">>, Some(<<"G","o","v","e","r","n","m","e","n","t"," ","e","t","h","i","c","s">>), <<"N","S","W">>, Some(0),
            Some(<< >>), Some(100000), Some(120000), Some("Contract"), Some("Mid"),
            Some(FALSE), None)
JobC == Job(<<"1">>, <<"A","-","b">>, <<"P","o","l","i","c","y"," ","o","f","f","i","c","e","r">>, Some(<<"G","o","v","e","r","n","m","e","n","t"," ","e","t","h","i","c","s">>), <<"N","S","W">>, Some(0),
            Some(<< >>), Some(100000), Some(120000), Some("Contract"), Some("Mid"),
            Some(FALSE), None)
\* dated later than tick 0
JobD == Job(<<"2">>, <<"B">>, <<"S","t","a","t","i","s","t","i","c","s"," ","P","h","D">>, None, <<"R","e","m","o","t","e">>, Some(TicksPerDay),
            None, None, None, None, Some("Senior"), Some(TRUE), None)

JobPool == { JobA, JobA2, JobB, JobC, JobD }

\* What an adapter can resolve with
Batches ==
  { << >>, << JobA, JobA2 >>, << JobB, JobD >>, << JobC >>, << JobC, JobC, JobB >> }

NoteTexts ==
  { <<>>, <<"S","a","l","a","r","y",","," ","r","e","m","o","t","e",","," ","M","a","n","a","g","e","r">>, <<"c","o","n","s","u","l","t","i","n","g"," ","a","t"," ","a"," ","U","n","i","v","e","r","s","i","t","y">>,
    <<"P","A","Y"," ","a","n","d"," ","H","y","b","r","i","d",";"," ","D","i","r","e","c","t","o","r">>, <<"a","c","a","d","e","m","i","c"," ","l","e","a","d","e","r","s","h","i","p">> }

\* What the feedback form can hand over for a posting: tags picked among the first
\* twelve of the posting's tags, in the order picked (lines 433-446)
selections(job) ==
  LET tags == slice0(IF IsSome(job.tags) THEN Get(job.tags) ELSE << >>, 12)
  IN  { << >> } \cup { << tags[i] >> : i \in 1..Len(tags) }
      \cup { << tags[q[1]], tags[q[2]] >> :
               q \in { r \in (1..Len(tags)) \X (1..Len(tags)) : r[1] # r[2] } }

\* Slider positions tried, of the range -2.5..2.5 (line 471)
SliderStops == { -250, 250 }

\* Direct edits tried (lines 622-664): the field and the value the input parses to
FieldEdits ==
  << [field |-> "minSalary", value |-> Some(0)],
     [field |-> "remoteOnly", value |-> TRUE],
     [field |-> "blockedKeywords", value |-> << <<"p","o","l","i","c","y">> >>],
     [field |-> "keywords", value |-> << <<"o","d">>, <<"P","h","D">> >>] >>

\* Sequences over S of length at most n
RECURSIVE SeqsUpTo(_, _)
SeqsUpTo(S, n) ==
  IF n = 0 THEN { << >> }
  ELSE LET shorter == SeqsUpTo(S, n - 1)
       IN  shorter \cup { Append(q, x) : q \in { r \in shorter : Len(r) = n - 1 }, x \in S }

-----------------------------------------------------------------------------
(* The component CareerPathfinderApp (lines 482-546) *)

AllEffects == { "savePrefs", "saveWeekly", "reRank" }
NoStorage == [k \in { STORAGE_KEY, SAVED_KEY } |-> None]
NoPromises == [i \in Adapters |-> [status |-> "none", value |-> << >>, at |-> 0]]
DefaultHeap == allocPrefs(<< >>, defaultPreferences)
DefaultRef == Len(DefaultHeap)

\* The useState initialisers (lines 485-498)
initialPrefs(st) == loadState(st, Obj(defaultPreferences)).v
initialSaved(st) ==
  IF IsSome(st[SAVED_KEY]) /\ Get(st[SAVED_KEY]).t = "array" THEN Get(st[SAVED_KEY]).v
  ELSE << >>
initialWeekly(st) == loadState(st, Obj([weekly |-> TRUE])).v.weekly

\* The first visit: nothing stored, the component constructed, its effects pending
Init ==
  /\ storage = NoStorage
  /\ prefs = initialPrefs(NoStorage)
  /\ saved = initialSaved(NoStorage)
  /\ weeklyDigest = initialWeekly(NoStorage)
  /\ jobs = << >> /\ ranked = << >> /\ loading = FALSE
  /\ lastFeedback = None
  /\ effects = AllEffects
  /\ now = 0
  /\ enabled = [i \in Adapters |-> TRUE]
  /\ fetchPc = "idle" /\ called = << >> /\ promises = NoPromises /\ fetchRaised = FALSE
  /\ heap = DefaultHeap /\ prefsRef = DefaultRef
  /\ rankTrace = << >>
  /\ submissions = 0 /\ nCalls = 0 /\ nEdits = 0
  /\ last = [op |-> "init"]

Idle == effects = {}

\* The three effects (lines 500-510), those pending, in the order declared.  The
\* clock may advance by a tick during reRank: the first k postings are scored at
\* now, the others at now + 1.
FlushEffects ==
  /\ effects # {}
  /\ \E k \in 0..Len(jobs) :
       /\ "reRank" \in effects \/ k = Len(jobs)
       /\ k = Len(jobs) \/ now < MaxNow
       /\ LET clock == [i \in 1..Len(jobs) |-> IF i <= k THEN now ELSE now + 1]
              st1 == IF "savePrefs" \in effects THEN saveState(storage, Obj(prefs))
                     ELSE storage
              st2 == IF "saveWeekly" \in effects
                     THEN saveState(st1, Obj([weekly |-> weeklyDigest])) ELSE st1
          IN  /\ storage' = st2
              /\ IF "reRank" \in effects
                 THEN /\ ranked' = reRank(jobs, prefs, clock)
                      /\ rankTrace' = rankDecorated(jobs, prefs, clock)
                 ELSE UNCHANGED << ranked, rankTrace >>
              /\ now' = IF k < Len(jobs) THEN now + 1 ELSE now
  /\ effects' = {}
  /\ last' = [op |-> "effects"]
  /\ UNCHANGED << prefs, jobs, loading, saved, weeklyDigest, lastFeedback, enabled,
                  fetchPc, called, promises, fetchRaised, heap, prefsRef, submissions,
                  nCalls, nEdits >>

\* Time passes
Tick ==
  /\ now < MaxNow
  /\ now' = now + 1
  /\ UNCHANGED << prefs, jobs, ranked, loading, saved, weeklyDigest, storage,
                  lastFeedback, effects, enabled, fetchPc, called, promises,
                  fetchRaised, heap, prefsRef, rankTrace, submissions, last, nCalls,
                  nEdits >>

\* setPrefs(p): the state replaced, the effects that depend on prefs scheduled
setPrefs(p) ==
  /\ prefs' = p
  /\ effects' = { "savePrefs", "reRank" }

\* "Save feedback" on the form of a displayed posting (line 455): the form calls
\* onSubmit(liked, notes, selected), which JobCard binds to () => onFeedback(job)
\* (line 418), that is handleFeedback(job) (lines 519-530, 600)
SubmitFeedbackOf(job, liked, notes, tags) ==
  /\ Idle
  /\ nEdits < MaxOps
  /\ \E i \in 1..Len(ranked) : ranked[i] = job
  /\ tags \in selections(job)
  /\ submissions' = submissions + 1
  /\ nEdits' = nEdits + 1
  /\ last' = [op |-> "submit"]
  /\ IF ~IsSome(lastFeedback)
     THEN UNCHANGED << prefs, effects, storage, lastFeedback >>
     ELSE LET d == Get(lastFeedback)
              learned == learnFromFeedback(prefs, job, d.liked, d.notes, d.tags)
              log == loadState(storage, Arr(<< >>))
              entry == [jobId |-> job.id, when |-> now, liked |-> d.liked,
                        notes |-> d.notes, tags |-> d.tags, title |-> job.title]
          IN  /\ setPrefs(learned)
              \* [...log, entry] throws unless log is an array
              /\ storage' = IF log.t = "array"
                            THEN saveState(storage, Arr(Append(log.v, entry)))
                            ELSE storage
              \* the render that follows clears the slot (line 540)
              /\ lastFeedback' = None
  /\ UNCHANGED << jobs, ranked, loading, saved, weeklyDigest, now, enabled, fetchPc,
                  called, promises, fetchRaised, heap, prefsRef, rankTrace, nCalls >>

SubmitFeedback ==
  \E i \in 1..Len(ranked), liked \in BOOLEAN, notes \in NoteTexts :
    \E tags \in selections(ranked[i]) : SubmitFeedbackOf(ranked[i], liked, notes, tags)

\* A weight slider moved (line 471)
SliderEdit ==
  /\ Idle
  /\ nEdits < MaxOps
  /\ \E k \in DOMAIN prefs.weights, v \in SliderStops :
       /\ setPrefs([prefs EXCEPT !.weights = [prefs.weights EXCEPT ![k] = v]])
       /\ last' = [op |-> "slider"]
  /\ nEdits' = nEdits + 1
  /\ UNCHANGED << jobs, ranked, loading, saved, weeklyDigest, storage, lastFeedback,
                  now, enabled, fetchPc, called, promises, fetchRaised, heap, prefsRef,
                  rankTrace, submissions, nCalls >>

\* A field of the Preferences tab edited (lines 622-664)
EditPrefs ==
  /\ Idle
  /\ nEdits < MaxOps
  /\ \E i \in 1..Len(FieldEdits) :
       setPrefs([prefs EXCEPT ![FieldEdits[i].field] = FieldEdits[i].value])
  /\ last' = [op |-> "edit"]
  /\ nEdits' = nEdits + 1
  /\ UNCHANGED << jobs, ranked, loading, saved, weeklyDigest, storage, lastFeedback,
                  now, enabled, fetchPc, called, promises, fetchRaised, heap, prefsRef,
                  rankTrace, submissions, nCalls >>

\* "Reset preferences" (line 593)
ResetPrefs ==
  /\ Idle
  /\ nEdits < MaxOps
  /\ setPrefs(defaultPreferences)
  /\ last' = [op |-> "reset"]
  /\ nEdits' = nEdits + 1
  /\ UNCHANGED << jobs, ranked, loading, saved, weeklyDigest, storage, lastFeedback,
                  now, enabled, fetchPc, called, promises, fetchRaised, heap, prefsRef,
                  rankTrace, submissions, nCalls >>

\* The weekly digest switch (line 559)
ToggleWeekly ==
  /\ Idle
  /\ nEdits < MaxOps
  /\ weeklyDigest' = ~weeklyDigest
  /\ effects' = { "saveWeekly" }
  /\ last' = [op |-> "weekly"]
  /\ nEdits' = nEdits + 1
  /\ UNCHANGED << prefs, jobs, ranked, loading, saved, storage, lastFeedback, now,
                  enabled, fetchPc, called, promises, fetchRaised, heap, prefsRef,
                  rankTrace, submissions, nCalls >>

\* "Save" on a displayed posting: handleSave (lines 532-536)
SaveJob ==
  /\ Idle
  /\ nEdits < MaxOps
  /\ \E i \in 1..Len(ranked) :
       LET job == ranked[i]
           next == IF \E k \in 1..Len(saved) : saved[k].id = job.id THEN saved
                   ELSE Append(saved, job)
       IN  /\ saved' = next
           /\ storage' = saveState(storage, Arr(next))
  /\ last' = [op |-> "save"]
  /\ nEdits' = nEdits + 1
  /\ UNCHANGED << prefs, jobs, ranked, loading, weeklyDigest, lastFeedback, effects,
                  now, enabled, fetchPc, called, promises, fetchRaised, heap, prefsRef,
                  rankTrace, submissions, nCalls >>

\* A source switch of the Sources tab (line 689)
ToggleAdapter ==
  /\ Idle
  /\ nEdits < MaxOps
  /\ \E i \in Adapters : enabled' = [enabled EXCEPT ![i] = ~enabled[i]]
  /\ nEdits' = nEdits + 1
  /\ UNCHANGED << prefs, jobs, ranked, loading, saved, weeklyDigest, storage,
                  lastFeedback, effects, now, fetchPc, called, promises, fetchRaised,
                  heap, prefsRef, rankTrace, submissions, last, nCalls >>

searchDisabled_never == FALSE

\* <Button onClick={runSearch} disabled={loading}> (line 589)
searchDisabled == loading

\* "Search": runSearch up to its await (lines 512-514), fetchJobs up to its await
\* (lines 345-346)
StartSearch ==
  /\ Idle
  /\ nEdits < MaxOps
  /\ ~searchDisabled
  /\ loading' = TRUE
  /\ called' = enabledAdapters(enabled)
  /\ promises' = [i \in Adapters |->
                    [status |-> IF enabled[i] THEN "pending" ELSE "none", value |-> << >>,
                     at |-> 0]]
  /\ fetchPc' = "awaiting"
  /\ fetchRaised' = FALSE
  /\ last' = [op |-> "search"]
  /\ nEdits' = nEdits + 1
  /\ UNCHANGED << prefs, jobs, ranked, saved, weeklyDigest, storage, lastFeedback,
                  effects, now, enabled, heap, prefsRef, rankTrace, submissions, nCalls >>

\* An adapter's promise fulfils with a list of postings, after those that have
\* settled before it
Fulfil ==
  /\ \E i \in Adapters, batch \in Batches :
       /\ promises[i].status = "pending"
       /\ promises' = [promises EXCEPT ![i] = [status |-> "fulfilled", value |-> batch,
                                               at |-> settledCount(promises) + 1]]
  /\ UNCHANGED << prefs, jobs, ranked, loading, saved, weeklyDigest, storage,
                  lastFeedback, effects, now, enabled, fetchPc, called, fetchRaised,
                  heap, prefsRef, rankTrace, submissions, last, nCalls, nEdits >>

\* An adapter's promise rejects
Reject ==
  /\ \E i \in Adapters :
       /\ promises[i].status = "pending"
       /\ promises' = [promises EXCEPT ![i] = [status |-> "rejected", value |-> << >>,
                                               at |-> settledCount(promises) + 1]]
  /\ UNCHANGED << prefs, jobs, ranked, loading, saved, weeklyDigest, storage,
                  lastFeedback, effects, now, enabled, fetchPc, called, fetchRaised,
                  heap, prefsRef, rankTrace, submissions, last, nCalls, nEdits >>

\* The awaits resume: fetchJobs from line 347, runSearch from line 515.  Were the
\* joint promise to reject, fetchJobs and runSearch would end there.
FinishSearch ==
  /\ Idle
  /\ fetchPc = "awaiting"
  /\ settled(called, promises).ready
  /\ fetchPc' = "done"
  /\ IF settled(called, promises).raised
     THEN /\ fetchRaised' = TRUE
          /\ UNCHANGED << jobs, loading, effects >>
     ELSE /\ fetchRaised' = FALSE
          /\ jobs' = dedup(concatFulfilled(called, promises))
          /\ loading' = FALSE
          /\ effects' = { "reRank" }
  /\ last' = [op |-> "found"]
  /\ UNCHANGED << prefs, ranked, saved, weeklyDigest, storage, lastFeedback, now,
                  enabled, called, promises, heap, prefsRef, rankTrace, submissions,
                  nCalls, nEdits >>

\* The page loaded again: the module and the component constructed from the storage
Reload ==
  /\ nEdits < MaxOps
  /\ prefs' = initialPrefs(storage)
  /\ saved' = initialSaved(storage)
  /\ weeklyDigest' = initialWeekly(storage)
  /\ jobs' = << >> /\ ranked' = << >> /\ loading' = FALSE
  /\ lastFeedback' = None
  /\ effects' = AllEffects
  /\ enabled' = [i \in Adapters |-> TRUE]
  /\ fetchPc' = "idle" /\ called' = << >> /\ promises' = NoPromises
  /\ fetchRaised' = FALSE
  /\ rankTrace' = << >>
  /\ last' = [op |-> "reload"]
  /\ nEdits' = nEdits + 1
  /\ UNCHANGED << storage, now, heap, prefsRef, submissions, nCalls >>

Next ==
  \/ FlushEffects
  \/ Tick
  \/ SubmitFeedback
  \/ SliderEdit
  \/ EditPrefs
  \/ ResetPrefs
  \/ ToggleWeekly
  \/ SaveJob
  \/ ToggleAdapter
  \/ StartSearch
  \/ Fulfil
  \/ Reject
  \/ FinishSearch
  \/ Reload

Spec == Init /\ [][Next]_vars

-----------------------------------------------------------------------------
(* The feedback learner called on its own results, from the default profile *)

\* The postings and tag selections tried: no tags at all, the posting's own tags,
\* one tag selected
LearnInputs ==
  { [job |-> JobD, tags |-> << >>], [job |-> JobA2, tags |-> << <<"O","D">> >>] }

\* The notes tried: no trigger, and the triggers of the three weights
LearnNotes == { <<>>, <<"S","a","l","a","r","y",","," ","r","e","m","o","t","e",","," ","M","a","n","a","g","e","r">> }

\* prefs = learnFromFeedback(prefs, job, liked, notes, selectedTags)
LearnCall ==
  /\ nCalls < MaxCalls
  /\ \E in \in LearnInputs, liked \in BOOLEAN, notes \in LearnNotes :
       /\ prefs' = learnFromFeedback(prefs, in.job, liked, notes, in.tags)
       /\ last' = [op |-> "learn"]
  /\ nCalls' = nCalls + 1
  /\ UNCHANGED << jobs, ranked, loading, saved, weeklyDigest, storage, lastFeedback,
                  effects, now, enabled, fetchPc, called, promises, fetchRaised, heap,
                  prefsRef, rankTrace, submissions, nEdits >>

SpecLearn == Init /\ [][LearnCall]_vars

-----------------------------------------------------------------------------
(* The learner fed by the feedback it is meant to receive (the payload of the  *)
(* submission present at line 523), among slider edits, resets and reloads     *)

\* const learned = learnFromFeedback(prefs, job, liked, notes, tags);
\* setPrefs(learned) (lines 524-525)
LearnStep ==
  /\ Idle
  /\ nEdits < MaxOps
  /\ \E in \in LearnInputs, liked \in BOOLEAN, notes \in NoteTexts :
       /\ setPrefs(learnFromFeedback(prefs, in.job, liked, notes, in.tags))
       /\ last' = [op |-> "learn", from |-> prefs.weights, liked |-> liked,
                   notes |-> notes, input |-> prefs]
  /\ nCalls' = nCalls + 1
  /\ nEdits' = nEdits + 1
  /\ UNCHANGED << jobs, ranked, loading, saved, weeklyDigest, storage, lastFeedback,
                  now, enabled, fetchPc, called, promises, fetchRaised, heap, prefsRef,
                  rankTrace, submissions >>

NextTune == LearnStep \/ SliderEdit \/ ResetPrefs \/ FlushEffects \/ Reload

SpecTune == Init /\ [][NextTune]_vars

-----------------------------------------------------------------------------
(* The profile state by reference: which objects each operation writes *)

\* handleFeedback's learnFromFeedback(prefs, ...) and setPrefs(learned)
HeapLearn ==
  /\ nEdits < MaxOps
  /\ \E in \in LearnInputs, liked \in BOOLEAN, notes \in NoteTexts :
       LET r == learnFromFeedbackAt(heap, prefsRef, in.job, liked, notes, in.tags)
       IN  /\ heap' = r.heap
           /\ prefsRef' = r.ref
           /\ prefs' = deref(r.heap, r.ref)
  /\ last' = [op |-> "learn", from |-> prefsRef]
  /\ nCalls' = nCalls + 1
  /\ nEdits' = nEdits + 1
  /\ UNCHANGED << jobs, ranked, loading, saved, weeklyDigest, storage, lastFeedback,
                  effects, now, enabled, fetchPc, called, promises, fetchRaised,
                  rankTrace, submissions >>

\* setPrefs(defaultPreferences) (line 593): the state holds the constant itself
HeapReset ==
  /\ nEdits < MaxOps
  /\ prefsRef' = DefaultRef
  /\ prefs' = deref(heap, DefaultRef)
  /\ last' = [op |-> "reset"]
  /\ nEdits' = nEdits + 1
  /\ UNCHANGED << jobs, ranked, loading, saved, weeklyDigest, storage, lastFeedback,
                  effects, now, enabled, fetchPc, called, promises, fetchRaised, heap,
                  rankTrace, submissions, nCalls >>

\* setPrefs({ ...prefs, weights: { ...prefs.weights, [k]: arr[0] } }) (line 471)
HeapSlider ==
  /\ nEdits < MaxOps
  /\ \E k \in DOMAIN heap[heap[prefsRef].weights], v \in SliderStops :
       /\ heap' = heap \o << [heap[heap[prefsRef].weights] EXCEPT ![k] = v],
                             [heap[prefsRef] EXCEPT !.weights = Len(heap) + 1] >>
       /\ prefsRef' = Len(heap) + 2
       /\ prefs' = deref(heap', prefsRef')
  /\ last' = [op |-> "slider"]
  /\ nEdits' = nEdits + 1
  /\ UNCHANGED << jobs, ranked, loading, saved, weeklyDigest, storage, lastFeedback,
                  effects, now, enabled, fetchPc, called, promises, fetchRaised,
                  rankTrace, submissions, nCalls >>

NextHeap == HeapLearn \/ HeapReset \/ HeapSlider

SpecHeap == Init /\ [][NextHeap]_vars

-----------------------------------------------------------------------------
(* The ranker on any posting list and profile *)

\* Profiles tried: the default, all weights equal to zero, and one a few feedback
\* events and slider edits away from the default
RankProfiles ==
  { defaultPreferences,
    [defaultPreferences EXCEPT !.weights = [k \in DOMAIN defaultPreferences.weights |-> 0]],
    [defaultPreferences EXCEPT !.weights.keywordMatch = 155, !.weights.recency = -250,
                               !.weights.remote = 38, !.minSalary = None,
                               !.keywords = Append(@, <<"p","o","l","i","c","y">>),
                               !.blockedKeywords = Append(@, <<"o","d">>)] }

InitRank ==
  /\ storage = NoStorage
  /\ prefs \in RankProfiles
  /\ jobs \in SeqsUpTo(JobPool, MaxJobs)
  /\ saved = << >> /\ weeklyDigest = TRUE
  /\ ranked = << >> /\ loading = FALSE
  /\ lastFeedback = None
  /\ effects = { "reRank" }
  /\ now = 0
  /\ enabled = [i \in Adapters |-> TRUE]
  /\ fetchPc = "idle" /\ called = << >> /\ promises = NoPromises /\ fetchRaised = FALSE
  /\ heap = DefaultHeap /\ prefsRef = DefaultRef
  /\ rankTrace = << >>
  /\ submissions = 0 /\ nCalls = 0 /\ nEdits = 0
  /\ last = [op |-> "init"]

SpecRank == InitRank /\ [][FlushEffects]_vars

-----------------------------------------------------------------------------
(* The ranker on one posting: every title, description, tag list and date tried *)

PostingTitles == { <<"B","a","r","i","s","t","a">>, <<"P","e","o","p","l","e">>, <<"M","e","t","h","o","d","o","l","o","g","y"," ","P","h","D">> }

\* Fourteen terms of the vocabulary occur in the last one
PostingDescriptions ==
  { None, Some(<<>>), Some(<<"A","n","a","l","y","t","i","c","s"," ","t","e","a","m">>),
    Some(<<"B","E","H","A","V","I","O","U","R","A","L"," ","L","e","a","d","e","r","s","h","i","p",","," ","c","u","l","t","u","r","e",";"," ","l","e","a","r","n","i","n","g"," ","D","a","t","a"," ","s","t","a","t","i","s","t","i","c","s"," ","E","v","a","l","u","a","t","i","o","n"," ","p","r","o","g","r","a","m"," ","p","o","l","i","c","y"," ","c","o","n","s","u","l","t","i","n","g"," ","e","x","p","e","r","i","m","e","n","t","a","l"," ","r","e","s","e","a","r","c","h">>) }

PostingTags == { None, Some(<< >>), Some(<< <<"T","e","c","h">> >>) }

\* No date; posted at tick 0; five days before tick 0; a tick short of 21 days before
PostingDates ==
  { None, Some(0), Some(0 - 5 * TicksPerDay), Some(0 - 20 * TicksPerDay - (TicksPerDay - 1)) }

PostingInputs ==
  { Job(<<"7">>, <<"A">>, t, d, <<"S","y","d","n","e","y">>, a, g, None, Some(150000), Some("Full-time"), Some("Lead"), None, Some(TRUE)) :
      t \in PostingTitles, d \in PostingDescriptions, a \in PostingDates, g \in PostingTags }

InitPosting ==
  /\ storage = NoStorage
  /\ prefs \in RankProfiles
  /\ jobs \in { << j >> : j \in PostingInputs }
  /\ saved = << >> /\ weeklyDigest = TRUE
  /\ ranked = << >> /\ loading = FALSE
  /\ lastFeedback = None
  /\ effects = { "reRank" }
  /\ now = 0
  /\ enabled = [i \in Adapters |-> TRUE]
  /\ fetchPc = "idle" /\ called = << >> /\ promises = NoPromises /\ fetchRaised = FALSE
  /\ heap = DefaultHeap /\ prefsRef = DefaultRef
  /\ rankTrace = << >>
  /\ submissions = 0 /\ nCalls = 0 /\ nEdits = 0
  /\ last = [op |-> "init"]

SpecPosting == InitPosting /\ [][FlushEffects]_vars

-----------------------------------------------------------------------------
(* The scoring function called on one posting under one profile *)

\* A posting with nothing but the required fields
JobBare == Job(<<"9">>, <<"B">>, <<"C","u","l","t","u","r","e"," ","l","e","a","d">>, None, <<"H","y","b","r","i","d",","," ","S","y","d","n","e","y">>, None, None, None, None,
               None, None, None, None)

\* The default profile with a minimum salary between the bounds of JobB
ScoreProfiles ==
  RankProfiles \cup { [defaultPreferences EXCEPT !.minSalary = Some(110000)] }

ScorePostings == JobPool \cup PostingInputs \cup { JobBare }

InitScore ==
  /\ storage = NoStorage
  /\ prefs \in ScoreProfiles
  /\ jobs \in { << j >> : j \in ScorePostings }
  /\ saved = << >> /\ weeklyDigest = TRUE
  /\ ranked = << >> /\ loading = FALSE
  /\ lastFeedback = None
  /\ effects = {}
  /\ now = 0
  /\ enabled = [i \in Adapters |-> TRUE]
  /\ fetchPc = "idle" /\ called = << >> /\ promises = NoPromises /\ fetchRaised = FALSE
  /\ heap = DefaultHeap /\ prefsRef = DefaultRef
  /\ rankTrace = << >>
  /\ submissions = 0 /\ nCalls = 0 /\ nEdits = 0
  /\ last = [op |-> "init"]

\* scoreJob(job, prefs) called once, at any reading of the clock
ScoreCall ==
  /\ last.op = "init"
  /\ \E c \in 0..MaxNow :
       /\ now' = c
       /\ last' = [op |-> "score", at |-> c, score |-> scoreJob(jobs[1], prefs, c)]
  /\ nCalls' = nCalls + 1
  /\ UNCHANGED << prefs, jobs, ranked, loading, saved, weeklyDigest, storage,
                  lastFeedback, effects, enabled, fetchPc, called, promises,
                  fetchRaised, heap, prefsRef, rankTrace, submissions, nEdits >>

SpecScore == InitScore /\ [][ScoreCall]_vars

-----------------------------------------------------------------------------
(* The source aggregation of one search under every order of settlement *)

\* The first search of a visit, over every choice of enabled adapters
FirstSearch == fetchPc = "idle" /\ StartSearch

\* The adapters switched on and off (line 689) before the search starts
ChooseAdapters == fetchPc = "idle" /\ ToggleAdapter

NextFetch ==
  FirstSearch \/ Fulfil \/ Reject \/ FinishSearch \/ ChooseAdapters \/ FlushEffects

SpecFetch == Init /\ [][NextFetch]_vars

-----------------------------------------------------------------------------
(* Searches in a row.  Every adapter invoked settles in the end (the adapter's *)
(* contract), a continuation whose promise has resolved runs, and React runs   *)
(* the pending effects.                                                         *)

NextSearch == StartSearch \/ Fulfil \/ Reject \/ FinishSearch \/ FlushEffects

\* WF_vars(FlushEffects) written out, FlushEffects being enabled exactly when an
\* effect is pending and every step of it changing effects
EffectsRun == []<>(effects = {}) \/ []<><<FlushEffects>>_vars

SpecSearch ==
  /\ Init /\ [][NextSearch]_vars
  /\ WF_vars(Fulfil \/ Reject)
  /\ WF_vars(FinishSearch)
  /\ EffectsRun

-----------------------------------------------------------------------------
(* The list shown, from a posting set fetched earlier, while the profile is    *)
(* edited and time passes                                                       *)

\* Posting sets a search can have left: every key once
ShownLists == { << JobD >>, << JobBare, JobA >> }

\* A search has completed and its re-rank effect is pending
InitShown ==
  /\ storage = NoStorage
  /\ prefs \in RankProfiles
  /\ jobs \in ShownLists
  /\ saved = << >> /\ weeklyDigest = TRUE
  /\ ranked = << >> /\ loading = FALSE
  /\ lastFeedback = None
  /\ effects = { "reRank" }
  /\ now = 0
  /\ enabled = [i \in Adapters |-> TRUE]
  /\ fetchPc = "done" /\ called = << >> /\ promises = NoPromises /\ fetchRaised = FALSE
  /\ heap = DefaultHeap /\ prefsRef = DefaultRef
  /\ rankTrace = << >>
  /\ submissions = 0 /\ nCalls = 0 /\ nEdits = 0
  /\ last = [op |-> "found"]

NextShown == SliderEdit \/ EditPrefs \/ ResetPrefs \/ Tick \/ FlushEffects

SpecShown == InitShown /\ [][NextShown]_vars

-----------------------------------------------------------------------------
(* Properties *)

\* The clamp ranges of lines 222, 223, 238, 239 and 240, in hundredths
ClampRange ==
  [ keywordMatch |-> 60..220, negativeKeyword |-> (0 - 300)..(0 - 60),
    salary |-> 20..240, remote |-> 0..140, seniority |-> 20..200 ]

\* The weights a learner call with this verdict and these notes assigns
adjusted(liked, notes) ==
  LET n == toLowerCase(notes)
  IN  (IF liked THEN { "keywordMatch" } ELSE { "negativeKeyword" })
      \cup (IF includes(n, <<"s","a","l","a","r","y">>) \/ includes(n, <<"p","a","y">>) THEN { "salary" } ELSE { })
      \cup (IF includes(n, <<"r","e","m","o","t","e">>) \/ includes(n, <<"h","y","b","r","i","d">>) THEN { "remote" } ELSE { })
      \cup (IF includes(n, <<"l","e","a","d","e","r","s","h","i","p">>) \/ includes(n, <<"m","a","n","a","g","e","r">>)
               \/ includes(n, <<"d","i","r","e","c","t","o","r">>) THEN { "seniority" } ELSE { })

\* C1: starting from the default profile, after any sequence of learner calls the
\* keyword-match weight is in [0.6, 2.2], the negative-keyword weight in [-3, -0.6],
\* the salary weight in [0.2, 2.4], the remote weight in [0, 1.4] and the seniority
\* weight in [0.2, 2].
C1_ClampInvariant ==
  \A k \in DOMAIN ClampRange : prefs.weights[k] \in ClampRange[k]

\* Seventeen likes whose notes name salary, remote and manager: four weights have
\* been held at their upper bound
C1_Witness ==
  /\ nCalls >= 17
  /\ prefs.weights.keywordMatch = 220
  /\ prefs.weights.salary = 240
  /\ prefs.weights.remote = 140
  /\ prefs.weights.seniority = 200

\* C2: every feedback submission replaces the profile by the learner's result for
\* the current profile, the posting, and the verdict, notes and tags submitted.
C2_SubmissionLearns ==
  [][ \A i \in 1..Len(ranked), liked \in BOOLEAN, notes \in NoteTexts :
        \A tags \in selections(ranked[i]) :
          SubmitFeedbackOf(ranked[i], liked, notes, tags)
            => prefs' = learnFromFeedback(prefs, ranked[i], liked, notes, tags) ]_vars

\* The objects a profile object consists of: itself, its weights and its two lists
cellsOf(h, a) == { a, h[a].weights, h[a].keywords, h[a].blockedKeywords }

\* C3: a learner call writes to no object that existed before it (so its input
\* profile and that profile's weights are as they were), the profile it returns is
\* an object that did not exist before, and the default-profile constant always
\* holds the default values.
C3_InputNeverMutated ==
  /\ [][ nCalls' = nCalls + 1 =>
           /\ \A a \in 1..Len(heap) : heap'[a] = heap[a]
           /\ deref(heap', prefsRef) = deref(heap, prefsRef)
           /\ prefsRef' > Len(heap)
           /\ heap'[prefsRef'].weights > Len(heap) ]_vars
  /\ [](deref(heap, DefaultRef) = defaultPreferences)

\* The learner was called on the default-profile constant itself, and returned a
\* profile with other values
C3_Witness ==
  /\ last.op = "learn"
  /\ last.from = DefaultRef
  /\ cellsOf(heap, prefsRef) \cap cellsOf(heap, DefaultRef)
       = { heap[DefaultRef].keywords, heap[DefaultRef].blockedKeywords }
  /\ deref(heap, prefsRef).weights # defaultPreferences.weights
  /\ deref(heap, DefaultRef) = defaultPreferences

\* C4: the ranker's output is ordered by score, no posting before one of strictly
\* higher score, each score being the scorer's value for that posting and the
\* profile, and the output holds exactly the input's postings.
C4_RankedDescending ==
  /\ Len(ranked) = Len(rankTrace)
  /\ \A i \in 1..Len(rankTrace) :
       /\ ranked[i] = rankTrace[i].job
       /\ rankTrace[i].score = scoreJob(ranked[i], prefs, rankTrace[i].at)
  /\ \A i, j \in 1..Len(rankTrace) :
       i < j => rankTrace[i].score >= rankTrace[j].score
  /\ Idle /\ rankTrace # << >> =>
       { rankTrace[i].idx : i \in 1..Len(rankTrace) } = 1..Len(jobs)

\* Three postings ranked, one of which was moved in front of an earlier one of
\* strictly lower score
C4_Witness ==
  /\ Len(rankTrace) >= 3
  /\ \E i, j \in 1..Len(rankTrace) :
       /\ i < j
       /\ rankTrace[i].idx > rankTrace[j].idx
       /\ rankTrace[i].score > rankTrace[j].score

\* C5: postings of identical score keep their relative input order in the output.
C5_StableTies ==
  \A i, j \in 1..Len(rankTrace) :
    i < j /\ rankTrace[i].score = rankTrace[j].score
      => rankTrace[i].idx < rankTrace[j].idx

\* Two different postings of identical score ranked, with a third of another score
C5_Witness ==
  \E i, j, k \in 1..Len(rankTrace) :
    /\ i < j
    /\ rankTrace[i].score = rankTrace[j].score
    /\ rankTrace[i].job # rankTrace[j].job
    /\ rankTrace[k].score # rankTrace[i].score

\* The postings of a list
postingsOf(js) == { js[i] : i \in 1..Len(js) }

\* C6: a search completes only after every invoked adapter has settled and never
\* fails; its result holds only postings returned by adapters that succeeded, one
\* for every deduplication key among them, and is empty when every adapter failed.
C6_PartialSuccess ==
  fetchPc = "done" =>
    /\ ~fetchRaised
    /\ ~loading
    /\ \A i \in 1..Len(called) : promises[called[i]].status \in { "fulfilled", "rejected" }
    /\ \A j \in postingsOf(jobs) :
         \E i \in 1..Len(called) :
           /\ promises[called[i]].status = "fulfilled"
           /\ j \in postingsOf(promises[called[i]].value)
    /\ \A i \in 1..Len(called) :
         promises[called[i]].status = "fulfilled" =>
           \A j \in postingsOf(promises[called[i]].value) :
             \E r \in postingsOf(jobs) : dedupKey(r) = dedupKey(j)
    /\ \A a, b \in 1..Len(jobs) : dedupKey(jobs[a]) = dedupKey(jobs[b]) => a = b
    /\ (\A i \in 1..Len(called) : promises[called[i]].status = "rejected") => jobs = << >>

\* A search completed with one adapter failed and the other returning postings
C6_Witness ==
  /\ fetchPc = "done"
  /\ Len(called) = 2
  /\ promises[called[1]].status = "rejected"
  /\ promises[called[2]].status = "fulfilled"
  /\ Len(jobs) >= 2

\* C7: when several postings of a search share source and identifier, the result
\* holds exactly one posting with that source and identifier, the one that comes
\* last in the order the results are combined.
C7_LastWriteWins ==
  fetchPc = "done" /\ ~fetchRaised =>
    LET all == concatFulfilled(called, promises)
        same(a, b) == a.source = b.source /\ a.id = b.id
    IN  \A k \in 1..Len(all) :
          (\E m \in 1..Len(all) : m # k /\ same(all[m], all[k])) =>
            LET lastOne == CHOOSE m \in 1..Len(all) :
                             /\ same(all[m], all[k])
                             /\ \A q \in 1..Len(all) : same(all[q], all[k]) => q <= m
            IN  /\ Cardinality({ i \in 1..Len(jobs) : same(jobs[i], all[k]) }) = 1
                /\ \E i \in 1..Len(jobs) : jobs[i] = all[lastOne]

\* C8: once the effects have run, what is stored under the storage key loads back
\* as the current profile.
C8_ProfilePersisted ==
  Idle => profileOf(loadState(storage, Obj(defaultPreferences)).v) = profileOf(prefs)

\* The feedback log as handleFeedback reads it (line 526), when it is a list
feedbackLog(st) ==
  LET v == loadState(st, Arr(<< >>)) IN IF v.t = "array" THEN v.v ELSE << >>

\* C9: each feedback submission adds exactly one entry to the end of the persisted
\* feedback log, and no step removes or rewrites an earlier entry.
C9_LogAppendOnly ==
  [][ /\ submissions' = submissions + 1 =>
           /\ Len(feedbackLog(storage')) = Len(feedbackLog(storage)) + 1
           /\ SubSeq(feedbackLog(storage'), 1, Len(feedbackLog(storage)))
                = feedbackLog(storage)
      /\ submissions' = submissions =>
           /\ Len(feedbackLog(storage')) >= Len(feedbackLog(storage))
           /\ SubSeq(feedbackLog(storage'), 1, Len(feedbackLog(storage)))
                = feedbackLog(storage) ]_vars

\* C10 as stated: in the running application, with slider edits, resets and
\* reloads among the feedback, the profile a learner call produces has its five
\* weights in their ranges.
C10_ClampAfterLearn ==
  last.op = "learn" => \A k \in DOMAIN ClampRange : prefs.weights[k] \in ClampRange[k]

\* C10 amended: the profile a learner call produces has every weight the call
\* adjusts in its range, and every other weight as it was in the call's input.
C10_ClampWhereTouched ==
  last.op = "learn" =>
    \A k \in DOMAIN prefs.weights :
      IF k \in adjusted(last.liked, last.notes)
      THEN prefs.weights[k] \in ClampRange[k]
      ELSE prefs.weights[k] = last.from[k]

\* A like after the keyword-match slider was put at 2.5: the learner brought that
\* weight back to 2.2 and left the others alone
C10_Witness ==
  /\ last.op = "learn"
  /\ last.liked
  /\ last.from.keywordMatch = 250
  /\ prefs.weights.keywordMatch = 220
  /\ \A k \in DOMAIN prefs.weights \ { "keywordMatch" } : prefs.weights[k] = last.from[k]

\* C11: two scorings of the same posting under the same profile give the same
\* score, whenever they are made.
C11_ScoreDeterministic ==
  \A i, j \in 1..Len(rankTrace) :
    rankTrace[i].job = rankTrace[j].job => rankTrace[i].score = rankTrace[j].score

\* C14: the recency contribution to the score is the recency weight for a posting
\* dated less than a day ago, weight x (21 - age)/21 at an age of 1..20 whole days,
\* and 0 at 21 days or more and for a posting with no date.
C14_RecencyDecay ==
  \A i \in 1..Len(rankTrace) :
    LET e == rankTrace[i]
        w == prefs.weights.recency
        r == e.score - scoreJob(e.job, [prefs EXCEPT !.weights.recency = 0], e.at)
    IN  IF ~IsSome(e.job.postedAt) THEN r = 0
        ELSE LET elapsed == e.at - Get(e.job.postedAt)
             IN  /\ 0 <= elapsed /\ elapsed < TicksPerDay => r = 21 * w
                 /\ \A age \in 1..20 :
                      age * TicksPerDay <= elapsed /\ elapsed < (age + 1) * TicksPerDay
                        => r = (21 - age) * w
                 /\ elapsed >= 21 * TicksPerDay => r = 0

\* A posting scored when a tick short of 21 days old, under a recency weight that
\* is not 0: it received one twenty-first of the weight
C14_Witness ==
  /\ Len(rankTrace) = 1
  /\ prefs.weights.recency = 60
  /\ IsSome(rankTrace[1].job.postedAt)
  /\ rankTrace[1].at - Get(rankTrace[1].job.postedAt) = 21 * TicksPerDay - 1
  /\ rankTrace[1].score
       - scoreJob(rankTrace[1].job, [prefs EXCEPT !.weights.recency = 0], rankTrace[1].at) = 60

\* C15: every posting the ranker puts out has a non-empty tag list.
C15_TagsNonEmpty ==
  \A i \in 1..Len(ranked) : IsSome(ranked[i].tags) /\ Len(Get(ranked[i].tags)) > 0

\* The position of a term in the vocabulary
pickIndex(t) == CHOOSE a \in 1..Len(picks) : picks[a] = t

\* C17: the tags extracted for a posting are at most 12 terms of the vocabulary, in
\* the vocabulary's order without repetition; a term is among them exactly when it
\* occurs, ignoring case, in title + " " + description and fewer than 12 earlier
\* terms occur; and the posting is otherwise as it was put in.
C17_ExtractTags ==
  rankTrace # << >> /\ ~(IsSome(jobs[1].tags) /\ Len(Get(jobs[1].tags)) > 0) =>
    LET in == jobs[1]
        R == Get(ranked[1].tags)
        text == toLowerCase(in.title \o <<" ">> \o
                            (IF IsSome(in.description) THEN Get(in.description) ELSE <<>>))
        occurs(a) == includes(text, toLowerCase(picks[a]))
        early(a) == Cardinality({ b \in 1..(a - 1) : occurs(b) }) < 12
    IN  /\ Len(R) <= 12
        /\ \A i \in 1..Len(R) : \E a \in 1..Len(picks) : picks[a] = R[i]
        /\ \A i, j \in 1..Len(R) : i < j => pickIndex(R[i]) < pickIndex(R[j])
        /\ \A a \in 1..Len(picks) :
             (\E i \in 1..Len(R) : R[i] = picks[a]) <=> (occurs(a) /\ early(a))
        /\ ranked[1] = [in EXCEPT !.tags = Some(R)]

\* A text in which more than 12 terms occur: 12 tags extracted, "research" left out
C17_Witness ==
  /\ rankTrace # << >>
  /\ jobs[1].tags = None
  /\ Len(Get(ranked[1].tags)) = 12
  /\ includes(toLowerCase(Get(jobs[1].description)), <<"r","e","s","e","a","r","c","h">>)
  /\ \A i \in 1..12 : Get(ranked[1].tags)[i] # <<"r","e","s","e","a","r","c","h">>
  /\ Get(ranked[1].tags)[1] = <<"b","e","h","a","v","i","o","u","r","a","l">>

\* C12: a learner call makes exactly one base adjustment, from any input weights:
\* on a like keywordMatch becomes keywordMatch + 0.05 held within [0.6, 2.2] and
\* negativeKeyword is unchanged; on a dislike negativeKeyword becomes
\* negativeKeyword - 0.05 held within [-3, -0.6] and keywordMatch is unchanged.
C12_BaseAdjustment ==
  last.op = "learn" =>
    LET a == last.from
        b == prefs.weights
        within(n, lo, hi) == IF n < lo THEN lo ELSE IF n > hi THEN hi ELSE n
    IN  IF last.liked
        THEN /\ b.keywordMatch = within(a.keywordMatch + 5, 60, 220)
             /\ b.negativeKeyword = a.negativeKeyword
        ELSE /\ b.negativeKeyword = within(a.negativeKeyword - 5, 0 - 300, 0 - 60)
             /\ b.keywordMatch = a.keywordMatch

\* A like of the default profile: keywordMatch 1.4 became 1.45, negativeKeyword
\* stayed -2.2
C12_Witness ==
  /\ last.op = "learn"
  /\ last.liked
  /\ last.from.keywordMatch = 140
  /\ prefs.weights.keywordMatch = 145
  /\ prefs.weights.negativeKeyword = 0 - 220

\* What each note tried must set off, read off the trigger words of lines 238-242
NoteEffects(notes) ==
  CASE notes = <<>> -> { }
    [] notes = <<"S","a","l","a","r","y",","," ","r","e","m","o","t","e",","," ","M","a","n","a","g","e","r">> -> { "salary", "remote", "seniority" }
    [] notes = <<"c","o","n","s","u","l","t","i","n","g"," ","a","t"," ","a"," ","U","n","i","v","e","r","s","i","t","y">> -> { "consulting", "academia" }
    [] notes = <<"P","A","Y"," ","a","n","d"," ","H","y","b","r","i","d",";"," ","D","i","r","e","c","t","o","r">> -> { "salary", "remote", "seniority" }
    [] notes = <<"a","c","a","d","e","m","i","c"," ","l","e","a","d","e","r","s","h","i","p">> -> { "academia", "seniority" }

\* C13: with step +0.15 on a like and -0.12 on a dislike, a learner call moves the
\* salary, remote and seniority weights by the step, held within their ranges, and
\* sets the consulting and academia flags to the verdict, each exactly when the
\* notes hold one of its trigger words in any case, and leaves it unchanged
\* otherwise; a note with several triggers has all their effects.
C13_NotesTriggers ==
  last.op = "learn" =>
    LET in == last.input
        step == IF last.liked THEN 15 ELSE 0 - 12
        fx == NoteEffects(last.notes)
        within(n, lo, hi) == IF n < lo THEN lo ELSE IF n > hi THEN hi ELSE n
    IN  /\ prefs.weights.salary =
             IF "salary" \in fx THEN within(in.weights.salary + step, 20, 240)
             ELSE in.weights.salary
        /\ prefs.weights.remote =
             IF "remote" \in fx THEN within(in.weights.remote + step, 0, 140)
             ELSE in.weights.remote
        /\ prefs.weights.seniority =
             IF "seniority" \in fx THEN within(in.weights.seniority + step, 20, 200)
             ELSE in.weights.seniority
        /\ prefs.consulting = IF "consulting" \in fx THEN last.liked ELSE in.consulting
        /\ prefs.academia = IF "academia" \in fx THEN last.liked ELSE in.academia

\* A dislike with the note "academic leadership" on the default profile: academia
\* switched off and seniority lowered by 0.12, consulting and salary as they were
C13_Witness ==
  /\ last.op = "learn"
  /\ ~last.liked
  /\ last.notes = <<"a","c","a","d","e","m","i","c"," ","l","e","a","d","e","r","s","h","i","p">>
  /\ last.input = defaultPreferences
  /\ ~prefs.academia
  /\ prefs.consulting
  /\ prefs.weights.seniority = 68
  /\ prefs.weights.salary = 120

\* C16: a search is in flight only while the Search button is disabled, no search
\* starts while another is in flight (so none is ever superseded), and the posting
\* set is written only by the completion of the search in flight, with that
\* search's result, or emptied by a reload.
C16_OnlyLatestSearch ==
  /\ [](fetchPc = "awaiting" => loading)
  /\ [][ /\ nEdits' = nEdits + 1 /\ last'.op = "search" /\ enabled' = enabled
              => fetchPc # "awaiting"
         /\ jobs' # jobs =>
              \/ /\ fetchPc = "awaiting" /\ fetchPc' = "done"
                 /\ jobs' = dedup(concatFulfilled(called, promises))
              \/ last'.op = "reload" /\ jobs' = << >> ]_vars

\* A second search has completed and its empty result has replaced the postings of
\* the first, which are still on display
C16_Witness ==
  /\ fetchPc = "done"
  /\ last.op = "found"
  /\ jobs = << >>
  /\ ranked # << >>

\* Whether what is stored is absent, unparseable, or not of the shape of fallback
\* (a list for a list; an object with no other properties than fallback's for an
\* object)
unusableFor(st, fallback) ==
  LET raw == st[STORAGE_KEY] IN
    \/ ~IsSome(raw)
    \/ Get(raw).t = "corrupt"
    \/ Get(raw).t # fallback.t
    \/ fallback.t = "object" /\ ~(DOMAIN Get(raw).v \subseteq DOMAIN fallback.v)

\* C18: for each of its three callers (profile, weekly-digest flag, feedback log),
\* when what is stored is absent, unparseable or not of the shape of the caller's
\* fallback, loadState returns the fallback.
C18_LoadFallsBack ==
  /\ unusableFor(storage, Arr(<< >>)) => loadState(storage, Arr(<< >>)) = Arr(<< >>)
  /\ unusableFor(storage, Obj([weekly |-> TRUE]))
       => loadState(storage, Obj([weekly |-> TRUE])) = Obj([weekly |-> TRUE])
  /\ unusableFor(storage, Obj(defaultPreferences))
       => loadState(storage, Obj(defaultPreferences)) = Obj(defaultPreferences)

\* C19: every posting returned by an adapter that succeeded has a posting of its
\* (source, identifier) pair in the result of the search: postings of different
\* pairs are never merged.
C19_PairIsKey ==
  fetchPc = "done" /\ ~fetchRaised =>
    \A i \in 1..Len(called) :
      promises[called[i]].status = "fulfilled" =>
        \A j \in postingsOf(promises[called[i]].value) :
          \E r \in postingsOf(jobs) : r.source = j.source /\ r.id = j.id

\* No two entries of the list are equal ignoring case
noCaseDuplicate(list) ==
  \A i, j \in 1..Len(list) : toLowerCase(list[i]) = toLowerCase(list[j]) => i = j

\* C20: learner calls never leave the allow-list or the block-list with two entries
\* that are equal ignoring case: a tag is not appended when the list already holds
\* it in any case.
C20_NoCaseDuplicate ==
  noCaseDuplicate(prefs.keywords) /\ noCaseDuplicate(prefs.blockedKeywords)

\* C21: the score of a posting under a profile is the sum of nine contributions:
\* the number of allow-list keywords occurring in title or description, case
\* ignored, times keywordMatch; the number of block-list keywords so occurring
\* times negativeKeyword; locationMatch if a preferred location occurs in the
\* posting's location; salary if the compensation (upper bound, else lower bound,
\* else 0) is at least the minimum salary (0 if absent); workType and seniority if
\* the label is accepted; industry if a tag contains an industry term; remote if
\* the posting is remote or hybrid; and the recency term.  A missing description,
\* salary, tag list or date counts as empty, zero and unknown.
C21_ScoreIsSum ==
  last.op = "score" =>
    LET job == jobs[1]
        w == prefs.weights
        sameChar(a, b) ==
          \/ a = b
          \/ a \in DOMAIN UpperToLower /\ UpperToLower[a] = b
          \/ b \in DOMAIN UpperToLower /\ UpperToLower[b] = a
          \/ a \in DOMAIN UpperToLower /\ b \in DOMAIN UpperToLower
               /\ UpperToLower[a] = UpperToLower[b]
        occurs(sub, s) ==
          \E k \in 1..(Len(s) + 1) :
            /\ k + Len(sub) - 1 <= Len(s)
            /\ \A j \in 1..Len(sub) : sameChar(s[k + j - 1], sub[j])
        text == IF job.description = None THEN << >> ELSE job.description[1]
        mentioned(kw) == occurs(kw, job.title) \/ occurs(kw, text)
        bit(b) == IF b THEN 1 ELSE 0
        allowHits == Cardinality({ i \in DOMAIN prefs.keywords : mentioned(prefs.keywords[i]) })
        blockHits ==
          Cardinality({ i \in DOMAIN prefs.blockedKeywords : mentioned(prefs.blockedKeywords[i]) })
        compensation ==
          IF job.salaryMax # None THEN job.salaryMax[1]
          ELSE IF job.salaryMin # None THEN job.salaryMin[1] ELSE 0
        minimum == IF prefs.minSalary = None THEN 0 ELSE prefs.minSalary[1]
        tagList == IF job.tags = None THEN << >> ELSE job.tags[1]
        located ==
          \E i \in DOMAIN prefs.preferredLocations : occurs(prefs.preferredLocations[i], job.location)
        typed ==
          job.workType # None /\ \E i \in DOMAIN prefs.workTypes : prefs.workTypes[i] = job.workType[1]
        sector ==
          \E t \in DOMAIN tagList : \E i \in DOMAIN prefs.industries :
            occurs(prefs.industries[i], tagList[t])
        senior ==
          job.seniority # None /\ \E i \in DOMAIN prefs.seniority : prefs.seniority[i] = job.seniority[1]
        distant == job.remote = << TRUE >> \/ job.hybrid = << TRUE >>
        age == IF job.postedAt = None THEN 999 ELSE (last.at - job.postedAt[1]) \div TicksPerDay
        recent == IF age < 21 THEN (21 - age) * w.recency ELSE 0
    IN  last.score =
          21 * ( allowHits * w.keywordMatch + blockHits * w.negativeKeyword
                 + bit(located) * w.locationMatch + bit(compensation >= minimum) * w.salary
                 + bit(typed) * w.workType + bit(sector) * w.industry
                 + bit(senior) * w.seniority + bit(distant) * w.remote )
          + recent

\* A posting with no description, salary, tag list or date was scored under the
\* default profile: one allow-list keyword and a preferred location, no more
C21_Witness ==
  /\ last.op = "score"
  /\ jobs[1] = JobBare
  /\ prefs = defaultPreferences
  /\ last.score = 21 * (140 + 90)

\* C26: under a recency weight that is not negative, the recency term of the score
\* lies between 0 and the weight, for any posting date, later than now included.
C26_RecencyBounded ==
  last.op = "score" /\ prefs.weights.recency >= 0 =>
    LET term == last.score
                  - scoreJob(jobs[1], [prefs EXCEPT !.weights.recency = 0], last.at)
    IN  0 <= term /\ term <= 21 * prefs.weights.recency

\* C23: the result of a search is fixed by the adapters invoked and by what each
\* of them settled with, whatever the order of settlement: it lists the postings
\* of the fulfilled adapters in the order of the adapter registry and, within an
\* adapter, of its own list, one posting per key at the place of the key's first
\* occurrence, and that posting is the key's last occurrence in this order.
C23_SettleOrderIrrelevant ==
  fetchPc = "done" /\ ~fetchRaised =>
    LET cells == { c \in (1..Len(called)) \X (1..3) :
                     /\ promises[called[c[1]]].status = "fulfilled"
                     /\ c[2] <= Len(promises[called[c[1]]].value) }
        posting(c) == promises[called[c[1]]].value[c[2]]
        before(c, d) == c[1] < d[1] \/ (c[1] = d[1] /\ c[2] < d[2])
        alike(c, d) == dedupKey(posting(c)) = dedupKey(posting(d))
        firsts == { c \in cells : \A d \in cells : alike(c, d) => ~before(d, c) }
        place(c) == 1 + Cardinality({ d \in firsts : before(d, c) })
        winner(c) == CHOOSE d \in cells : alike(c, d) /\ \A e \in cells : alike(c, e) => ~before(d, e)
    IN  /\ \A i \in 1..Len(called) : Len(promises[called[i]].value) <= 3
        /\ Len(jobs) = Cardinality(firsts)
        /\ \A c \in firsts : jobs[place(c)] = posting(winner(c))

\* A search completed whose second adapter settled before the first, the two
\* returning postings of one key: the result holds the second adapter's posting
\* at the head, the place of the first adapter's
C23_Witness ==
  /\ fetchPc = "done"
  /\ called = << 1, 2 >>
  /\ promises[2].at = 1 /\ promises[1].at = 2
  /\ promises[1].value = << JobB, JobD >>
  /\ promises[2].value = << JobC >>
  /\ jobs = << JobC, JobD >>

\* C24: a call of the feedback learner returns a profile that differs from its
\* input at most in the weights keywordMatch, negativeKeyword, salary, remote and
\* seniority, in the allow-list when liked or the block-list when disliked, and in
\* the consulting and academia flags: the other weights, the set of weight keys,
\* every other field, the block-list on a like and the allow-list on a dislike
\* are those of the input.
C24_LearnerFrame ==
  last.op = "learn" =>
    LET in == last.input
        out == prefs
        learnedWeights == { "keywordMatch", "negativeKeyword", "salary", "remote", "seniority" }
        learnedFields == { "weights", "keywords", "blockedKeywords", "consulting", "academia" }
    IN  /\ DOMAIN out = DOMAIN in
        /\ DOMAIN out.weights = DOMAIN in.weights
        /\ { "locationMatch", "workType", "industry", "recency" } \subseteq DOMAIN in.weights
        /\ \A k \in DOMAIN in.weights \ learnedWeights : out.weights[k] = in.weights[k]
        /\ { "preferredLocations", "excludedLocations", "workTypes", "industries",
             "seniority", "remoteOnly", "publicSector", "privateSector" } \subseteq DOMAIN in
        /\ \A f \in DOMAIN in \ learnedFields : out[f] = in[f]
        /\ last.liked => out.blockedKeywords = in.blockedKeywords
        /\ ~last.liked => out.keywords = in.keywords

\* A dislike with a tag and notes that mention consulting and a university: the
\* block-list grew, a weight and both flags changed
C24_Witness ==
  /\ last.op = "learn"
  /\ ~last.liked
  /\ Len(prefs.blockedKeywords) = Len(last.input.blockedKeywords) + 1
  /\ prefs.weights.negativeKeyword # last.input.weights.negativeKeyword
  /\ last.input.consulting /\ ~prefs.consulting
  /\ last.input.academia /\ ~prefs.academia

\* C25: with every invoked adapter settling in the end, a search that has started
\* ends: the posting set is replaced by the search's result and the loading flag
\* returns to false, also when every adapter rejects, and another search can then
\* start; the loading flag is true exactly while a search is in flight.
C25_SearchTerminates ==
  /\ [](loading <=> fetchPc = "awaiting")
  /\ (fetchPc = "awaiting") ~> (fetchPc = "done" /\ ~loading /\ last.op = "found")
  /\ [][fetchPc = "awaiting" /\ fetchPc' # "awaiting" =>
          /\ \A i \in 1..Len(called) : promises[called[i]].status \in { "fulfilled", "rejected" }
          /\ jobs' = dedup(concatFulfilled(called, promises))
          /\ ~loading']_vars
  /\ [](fetchPc = "done" /\ Idle /\ nEdits < MaxOps => ENABLED StartSearch)

\* The second search of a visit has ended with every adapter rejecting: nothing is
\* listed and the loading flag is false
C25_Witness ==
  /\ fetchPc = "done"
  /\ nEdits = 2
  /\ Len(called) = NumAdapters
  /\ \A i \in 1..Len(called) : promises[called[i]].status = "rejected"
  /\ jobs = << >>
  /\ ~loading

\* C22: once the effects have run after a change of the profile or of the posting
\* set, the list shown is reRank of the current posting set under the current
\* profile, and it stays so until the next change.
C22_ShownIsCurrent ==
  Idle => ranked = reRank(jobs, prefs, [i \in 1..Len(jobs) |-> now])

\* The part of C22 that holds: once the effects have run, the list shown is reRank
\* of the current posting set under the current profile as computed at some
\* earlier reading of the clock.
C22_ShownFromCurrentProfile ==
  Idle =>
    \E t \in 0..now : \E k \in 0..Len(jobs) :
      ranked = reRank(jobs, prefs, [i \in 1..Len(jobs) |-> IF i <= k THEN t ELSE t + 1])

====
